---- MODULE Spec2Model ----
(***************************************************************************)
(* A model of the contentpilot backend's content pipeline: the response   *)
(* normaliser (ollama_service.generate_json_response), the freshness      *)
(* classifier, article fetcher and context builder (fresh_data_service)   *)
(* and the composed blog operations (ai_service).                          *)
(*                                                                         *)
(* Text is a sequence of characters, each a one-character string.  The    *)
(* backtick cannot be written inside a TLA+ string, so it is the atom BT. *)
(***************************************************************************)
EXTENDS Integers, Sequences, FiniteSets, TLC

VARIABLES
    pc,              \* position of the operation being run
    seed,            \* how the backend's text was made (SpecJson)
    generated_text,  \* what generate_text returned
    json_result,     \* what generate_json_response did with it
    topic,           \* the topic handed to needs_fresh_data
    needs_fresh,     \* what needs_fresh_data returned
    feeds,           \* what feedparser.parse gives for each of RSS_FEEDS
    max_items,       \* fetch_rss_articles' max_items
    fetch_exc,       \* the exception fetch_rss_articles raised, or "none"
    articles,        \* the articles fetch_rss_articles returned
    max_chars,       \* build_fresh_context's max_chars
    fresh_context,   \* the string build_fresh_context returned, or None
    op,              \* the blog operation being run, or "none"
    context,         \* generate_detailed_blog's context argument
    base_prompt,     \* the body prompt built for the metadata call
    ai_json,         \* the dict the blog operation works on
    calls,           \* the calls made to the feeds and the two backends
    blog_exc,        \* the exception the blog operation raised, or "none"
    result,          \* what the blog operation returned
    enhance_exc,     \* the exception enhance_image_prompt swallowed, or "none"
    image_exc,       \* the exception the image step raised and the operation caught, or "none"
    environ,         \* os.environ after load_dotenv: each variable's value, or None
    config,          \* the module constants config.py computed
    backend,         \* what the text backend did with the request
    posts,           \* the requests.post calls generate_text made
    text_result,     \* what generate_text raised or returned
    first            \* the finished generate_blog_with_image run a second run is compared with

jsonVars == <<seed, generated_text, json_result>>
freshVars == <<topic, needs_fresh>>
fetchVars == <<feeds, max_items, fetch_exc>>
ctxVars == <<max_chars, fresh_context>>
imageVars == <<enhance_exc, image_exc>>
blogVars == <<op, context, base_prompt, ai_json, calls, blog_exc, result, imageVars>>
textVars == <<environ, config, backend, posts, text_result>>
pairVars == <<first>>
vars == <<pc, jsonVars, freshVars, fetchVars, articles, ctxVars, blogVars, textVars, pairVars>>

-----------------------------------------------------------------------------
(* Characters and Python's str operations.                                 *)

BT == "BT"

\* an optional string: Python's None, or a str
NoneStr == [none |-> TRUE, text |-> <<>>]
Some(text) == [none |-> FALSE, text |-> text]

\* str.strip() with no argument removes whitespace; these are the whitespace
\* characters of the model's alphabet.
PyWhitespace == {" ", "\n", "\t", "\r"}

LStripFrom(s) ==
    IF \A k \in 1..Len(s) : s[k] \in PyWhitespace
    THEN Len(s) + 1
    ELSE CHOOSE i \in 1..Len(s) :
            s[i] \notin PyWhitespace /\ \A k \in 1..(i-1) : s[k] \in PyWhitespace

RStripTo(s) ==
    IF \A k \in 1..Len(s) : s[k] \in PyWhitespace
    THEN 0
    ELSE CHOOSE i \in 1..Len(s) :
            s[i] \notin PyWhitespace /\ \A k \in (i+1)..Len(s) : s[k] \in PyWhitespace

\* s.strip()
Strip(s) == SubSeq(s, LStripFrom(s), RStripTo(s))

\* s.startswith(p), s.endswith(p)
StartsWith(s, p) == Len(s) >= Len(p) /\ SubSeq(s, 1, Len(p)) = p
EndsWith(s, p) == Len(s) >= Len(p) /\ SubSeq(s, Len(s) - Len(p) + 1, Len(s)) = p

\* s[n:] and s[:-n]
DropFirst(s, n) == SubSeq(s, n + 1, Len(s))
DropLast(s, n) == SubSeq(s, 1, Len(s) - n)

\* "".join(parts[lo..hi]), by halves
RECURSIVE FlattenRange(_, _, _)
FlattenRange(ps, lo, hi) ==
    IF lo > hi THEN <<>>
    ELSE IF lo = hi THEN ps[lo]
    ELSE LET mid == (lo + hi) \div 2
         IN  FlattenRange(ps, lo, mid) \o FlattenRange(ps, mid + 1, hi)

\* "".join(parts)
Flatten(ps) == FlattenRange(ps, 1, Len(ps))

\* str(n) for n >= 0
DigitChar(n) == <<"0", "1", "2", "3", "4", "5", "6", "7", "8", "9">>[n + 1]
RECURSIVE IntToStr(_)
IntToStr(n) ==
    IF n < 10 THEN <<DigitChar(n)>> ELSE IntToStr(n \div 10) \o <<DigitChar(n % 10)>>

\* `p in s` for strings
Contains(s, p) ==
    \E i \in 1..(Len(s) - Len(p) + 1) : \A j \in 1..Len(p) : s[i + j - 1] = p[j]

-----------------------------------------------------------------------------
(* JSON values, and json.loads on the model's alphabet.                    *)

NoValue == [t |-> "none", s |-> <<>>, keys |-> <<>>, kids |-> <<>>]
JNull == [t |-> "null", s |-> <<>>, keys |-> <<>>, kids |-> <<>>]
JTrue == [t |-> "true", s |-> <<>>, keys |-> <<>>, kids |-> <<>>]
JFalse == [t |-> "false", s |-> <<>>, keys |-> <<>>, kids |-> <<>>]
JNum(lexeme) == [t |-> "num", s |-> lexeme, keys |-> <<>>, kids |-> <<>>]
JStr(chars) == [t |-> "str", s |-> chars, keys |-> <<>>, kids |-> <<>>]
JArr(elems) == [t |-> "arr", s |-> <<>>, keys |-> <<>>, kids |-> elems]
\* a dict: keys in insertion order, kids[i] the value of keys[i]
JObj(ks, vs) == [t |-> "obj", s |-> <<>>, keys |-> ks, kids |-> vs]

JsonWs == {" ", "\t", "\n", "\r"}
Digits == {"0", "1", "2", "3", "4", "5", "6", "7", "8", "9"}

At(s, i) == IF i >= 1 /\ i <= Len(s) THEN s[i] ELSE "EOF"
HasAt(s, i, p) == i + Len(p) - 1 <= Len(s) /\ SubSeq(s, i, i + Len(p) - 1) = p

SkipWs(s, i) ==
    CHOOSE j \in i..(Len(s) + 1) :
        At(s, j) \notin JsonWs /\ \A k \in i..(j-1) : s[k] \in JsonWs

DigitsEnd(s, i) ==
    CHOOSE j \in i..(Len(s) + 1) :
        At(s, j) \notin Digits /\ \A k \in i..(j-1) : s[k] \in Digits

Fail == [ok |-> FALSE, val |-> NoValue, pos |-> 0]
Ok(v, p) == [ok |-> TRUE, val |-> v, pos |-> p]

\* the character a backslash escape stands for (BS and FF are the atoms of
\* backspace and form feed; \uXXXX is outside the model's alphabet)
Unescape(e) ==
    IF e = "n" THEN "\n"
    ELSE IF e = "t" THEN "\t"
    ELSE IF e = "r" THEN "\r"
    ELSE IF e = "b" THEN "BS"
    ELSE IF e = "f" THEN "FF"
    ELSE e

\* py_scanstring from index i inside a string, acc the characters so far
\* (strict mode: a control character inside a string is an error)
RECURSIVE ScanStringFrom(_, _, _)
ScanStringFrom(s, i, acc) ==
    LET stop == {"\"", "EOF", "\\", "\n", "\t", "\r"}
        j == CHOOSE k \in i..(Len(s) + 1) :
                At(s, k) \in stop /\ \A m \in i..(k-1) : s[m] \notin stop
        chunk == acc \o SubSeq(s, i, j - 1)
    IN  IF At(s, j) = "\"" THEN Ok(JStr(chunk), j + 1)
        ELSE IF At(s, j) = "\\" /\ At(s, j + 1) \in {"\"", "\\", "/", "b", "f", "n", "r", "t"}
        THEN ScanStringFrom(s, j + 2, Append(chunk, Unescape(At(s, j + 1))))
        ELSE Fail

\* py_scanstring from the character after the opening quote
ScanString(s, i) == ScanStringFrom(s, i, <<>>)

\* NUMBER_RE.match: (-?(?:0|[1-9][0-9]*))(\.[0-9]+)?([eE][-+]?[0-9]+)?
ScanNumber(s, i) ==
    LET a == IF At(s, i) = "-" THEN i + 1 ELSE i
        ie == IF At(s, a) = "0" THEN a + 1 ELSE DigitsEnd(s, a)
        fe == IF At(s, ie) = "." /\ At(s, ie + 1) \in Digits
              THEN DigitsEnd(s, ie + 1) ELSE ie
        b == IF At(s, fe + 1) \in {"+", "-"} THEN fe + 2 ELSE fe + 1
        ee == IF At(s, fe) \in {"e", "E"} /\ At(s, b) \in Digits
              THEN DigitsEnd(s, b) ELSE fe
    IN  IF At(s, a) \in Digits THEN Ok(JNum(SubSeq(s, i, ee - 1)), ee) ELSE Fail

\* dict(pairs): a repeated key keeps its first position and takes the last value
DictPut(d, k, v) ==
    IF \E i \in 1..Len(d.keys) : d.keys[i] = k
    THEN LET i == CHOOSE n \in 1..Len(d.keys) : d.keys[n] = k
         IN  JObj(d.keys, [d.kids EXCEPT ![i] = v])
    ELSE JObj(Append(d.keys, k), Append(d.kids, v))

Infinity == <<"I", "n", "f", "i", "n", "i", "t", "y">>

RECURSIVE ParseValue(_, _), ParseElems(_, _, _), ParseMembers(_, _, _)

\* JSONArray's loop: s[i] starts an element
ParseElems(s, i, acc) ==
    LET r == ParseValue(s, i) IN
    IF ~r.ok THEN Fail
    ELSE LET j == SkipWs(s, r.pos)
             acc2 == Append(acc, r.val)
         IN  IF At(s, j) = "]" THEN Ok(JArr(acc2), j + 1)
             ELSE IF At(s, j) = "," THEN ParseElems(s, SkipWs(s, j + 1), acc2)
             ELSE Fail

\* JSONObject's loop: s[i] is the opening quote of a key
ParseMembers(s, i, d) ==
    LET k == ScanString(s, i + 1) IN
    IF ~k.ok THEN Fail
    ELSE LET c == SkipWs(s, k.pos) IN
         IF At(s, c) # ":" THEN Fail
         ELSE LET v == ParseValue(s, SkipWs(s, c + 1)) IN
              IF ~v.ok THEN Fail
              ELSE LET e == SkipWs(s, v.pos)
                       d2 == DictPut(d, k.val.s, v.val)
                   IN  IF At(s, e) = "}" THEN Ok(d2, e + 1)
                       ELSE IF At(s, e) # "," THEN Fail
                       ELSE LET n == SkipWs(s, e + 1) IN
                            IF At(s, n) = "\"" THEN ParseMembers(s, n, d2) ELSE Fail

\* scan_once at index i
ParseValue(s, i) ==
    LET c == At(s, i) IN
    IF c = "\"" THEN ScanString(s, i + 1)
    ELSE IF c = "{" THEN
        LET j == SkipWs(s, i + 1) IN
        IF At(s, j) = "}" THEN Ok(JObj(<<>>, <<>>), j + 1)
        ELSE IF At(s, j) = "\"" THEN ParseMembers(s, j, JObj(<<>>, <<>>))
        ELSE Fail
    ELSE IF c = "[" THEN
        LET j == SkipWs(s, i + 1) IN
        IF At(s, j) = "]" THEN Ok(JArr(<<>>), j + 1) ELSE ParseElems(s, j, <<>>)
    ELSE IF HasAt(s, i, <<"n", "u", "l", "l">>) THEN Ok(JNull, i + 4)
    ELSE IF HasAt(s, i, <<"t", "r", "u", "e">>) THEN Ok(JTrue, i + 4)
    ELSE IF HasAt(s, i, <<"f", "a", "l", "s", "e">>) THEN Ok(JFalse, i + 5)
    ELSE IF ScanNumber(s, i).ok THEN ScanNumber(s, i)
    ELSE IF HasAt(s, i, <<"N", "a", "N">>) THEN Ok(JNum(<<"N", "a", "N">>), i + 3)
    ELSE IF HasAt(s, i, Infinity) THEN Ok(JNum(Infinity), i + 8)
    ELSE IF HasAt(s, i, <<"-">> \o Infinity) THEN Ok(JNum(<<"-">> \o Infinity), i + 9)
    ELSE Fail

\* json.loads(s): the decoded value, or JSONDecodeError
JsonLoads(s) ==
    LET r == ParseValue(s, SkipWs(s, 1)) IN
    IF r.ok /\ SkipWs(s, r.pos) = Len(s) + 1
    THEN [exc |-> "none", val |-> r.val]
    ELSE [exc |-> "JSONDecodeError", val |-> NoValue]

\* json.dumps escapes of the model's alphabet
EscapeChar(c) ==
    IF c = "\"" THEN <<"\\", "\"">>
    ELSE IF c = "\\" THEN <<"\\", "\\">>
    ELSE IF c = "\n" THEN <<"\\", "n">>
    ELSE IF c = "\t" THEN <<"\\", "t">>
    ELSE IF c = "\r" THEN <<"\\", "r">>
    ELSE <<c>>

DumpsStr(chars) ==
    <<"\"">> \o Flatten([i \in 1..Len(chars) |-> EscapeChar(chars[i])]) \o <<"\"">>

\* ", ".join(items)
RECURSIVE JoinComma(_, _)
JoinComma(items, i) ==
    IF i > Len(items) THEN <<>>
    ELSE (IF i > 1 THEN <<",", " ">> ELSE <<>>) \o items[i] \o JoinComma(items, i + 1)

\* json.dumps(v) with the default separators; None is null
RECURSIVE Dumps(_)
Dumps(v) ==
    IF v.t = "str" THEN DumpsStr(v.s)
    ELSE IF v.t = "num" THEN v.s
    ELSE IF v.t \in {"null", "none"} THEN <<"n", "u", "l", "l">>
    ELSE IF v.t = "true" THEN <<"t", "r", "u", "e">>
    ELSE IF v.t = "false" THEN <<"f", "a", "l", "s", "e">>
    ELSE IF v.t = "arr"
    THEN <<"[">> \o JoinComma([i \in 1..Len(v.kids) |-> Dumps(v.kids[i])], 1) \o <<"]">>
    ELSE <<"{">> \o JoinComma([i \in 1..Len(v.keys) |->
                        DumpsStr(v.keys[i]) \o <<":", " ">> \o Dumps(v.kids[i])], 1)
             \o <<"}">>

\* d.get(key, default) on a dict
DictGet(d, key, default) ==
    IF \E i \in 1..Len(d.keys) : d.keys[i] = key
    THEN d.kids[CHOOSE i \in 1..Len(d.keys) : d.keys[i] = key]
    ELSE default

\* bool(v): a number is falsy when its mantissa has no digit but 0
Truthy(v) ==
    \/ v.t = "true"
    \/ v.t = "str" /\ v.s # <<>>
    \/ /\ v.t = "num"
       /\ \/ \E i \in 1..Len(v.s) : v.s[i] \in {"N", "I"}
          \/ \E i \in 1..Len(v.s) :
                /\ v.s[i] \in Digits \ {"0"}
                /\ \A j \in 1..i : v.s[j] \notin {"e", "E"}
    \/ v.t = "arr" /\ v.kids # <<>>
    \/ v.t = "obj" /\ v.keys # <<>>

-----------------------------------------------------------------------------
(* ollama_service.generate_json_response, after generate_text returned.   *)

FenceJson == <<BT, BT, BT, "j", "s", "o", "n">>
Fence == <<BT, BT, BT>>
RawKey == <<"r", "a", "w">>

\* the exception classes the except clause names
JsonCaught == {"JSONDecodeError", "ValueError"}

\* a normaliser that knows only the language-tagged fence
MutCleanFences_TaggedOnly(text) ==
    LET t0 == Strip(text)
        t1 == IF StartsWith(t0, FenceJson) THEN DropFirst(t0, 7) ELSE t0
        t3 == IF EndsWith(t1, Fence) THEN DropLast(t1, 3) ELSE t1
    IN  Strip(t3)

\* lines 156-164: strip, drop the fences, strip
CleanFences(text) ==
    LET t0 == Strip(text)
        t1 == IF StartsWith(t0, FenceJson) THEN DropFirst(t0, 7) ELSE t0
        t2 == IF StartsWith(t1, Fence) THEN DropFirst(t1, 3) ELSE t1
        t3 == IF EndsWith(t2, Fence) THEN DropLast(t2, 3) ELSE t2
    IN  Strip(t3)

\* a normaliser that hands back the cleaned text instead of the original
MutNormalizeJson_RawCleaned(text) ==
    LET r == JsonLoads(CleanFences(text)) IN
    IF r.exc = "none" THEN [exc |-> "none", val |-> r.val]
    ELSE [exc |-> "none", val |-> JObj(<<RawKey>>, <<JStr(CleanFences(text))>>)]

\* lines 166-170: the parsed value, or {"raw": generated_text}
NormalizeJson(text) ==
    LET r == JsonLoads(CleanFences(text)) IN
    IF r.exc = "none" THEN [exc |-> "none", val |-> r.val]
    ELSE IF r.exc \in JsonCaught
    THEN [exc |-> "none", val |-> JObj(<<RawKey>>, <<JStr(text)>>)]
    ELSE [exc |-> r.exc, val |-> NoValue]

\* generate_text, when the backend answered: result.get("response", "").strip()
GenerateTextOk(response) == Strip(response)

-----------------------------------------------------------------------------
(* fresh_data_service.needs_fresh_data                                     *)

UpperLetters == <<"A", "B", "C", "D", "E", "F", "G", "H", "I", "J", "K", "L", "M",
                  "N", "O", "P", "Q", "R", "S", "T", "U", "V", "W", "X", "Y", "Z">>
LowerLetters == <<"a", "b", "c", "d", "e", "f", "g", "h", "i", "j", "k", "l", "m",
                  "n", "o", "p", "q", "r", "s", "t", "u", "v", "w", "x", "y", "z">>

IsUpper(c) == \E i \in 1..26 : UpperLetters[i] = c
IsLower(c) == \E i \in 1..26 : LowerLetters[i] = c

\* str.lower()
Lower(s) ==
    [i \in 1..Len(s) |->
        IF IsUpper(s[i])
        THEN LowerLetters[CHOOSE k \in 1..26 : UpperLetters[k] = s[i]]
        ELSE s[i]]

FRESH_DATA_KEYWORDS == <<
    <<"l", "a", "t", "e", "s", "t">>,
    <<"r", "e", "c", "e", "n", "t">>,
    <<"u", "p", "d", "a", "t", "e">>,
    <<"u", "p", "d", "a", "t", "e", "s">>,
    <<"t", "r", "e", "n", "d", "s">>,
    <<"n", "e", "w">>,
    <<"2", "0", "2", "4">>,
    <<"2", "0", "2", "5">>,
    <<"2", "0", "2", "6">>,
    <<"c", "u", "r", "r", "e", "n", "t">>,
    <<"n", "o", "w">>,
    <<"t", "o", "d", "a", "y">>,
    <<"b", "r", "e", "a", "k", "i", "n", "g">>,
    <<"n", "e", "w", "s">> >>

\* the regular expression's \w
IsWordChar(c) == IsUpper(c) \/ IsLower(c) \/ c \in Digits \/ c = "_"

\* (202[4-9]|203[0-9]) matches s[i..i+3]
YearPatternAt(s, i) ==
    /\ i >= 1
    /\ i + 3 <= Len(s)
    /\ s[i] = "2"
    /\ s[i + 1] = "0"
    /\ \/ s[i + 2] = "2" /\ s[i + 3] \in {"4", "5", "6", "7", "8", "9"}
       \/ s[i + 2] = "3" /\ s[i + 3] \in Digits

\* a year that runs into a letter, digit or underscore still counts
MutYearSearch_NoBoundary(s) ==
    \E i \in 1..Len(s) : YearPatternAt(s, i)

\* re.search(r'\b(202[4-9]|203[0-9])\b', s): \b holds between a word
\* character and a non-word character or an end of the string
YearSearch(s) ==
    \E i \in 1..Len(s) :
        /\ YearPatternAt(s, i)
        /\ ~IsWordChar(At(s, i - 1))
        /\ ~IsWordChar(At(s, i + 4))

\* the keyword loop, from keyword k on: the first match returns True
RECURSIVE KeywordLoop(_, _)
KeywordLoop(topic_lower, k) ==
    IF k > Len(FRESH_DATA_KEYWORDS) THEN FALSE
    ELSE IF Contains(topic_lower, FRESH_DATA_KEYWORDS[k]) THEN TRUE
    ELSE KeywordLoop(topic_lower, k + 1)

\* the keywords are looked up in the topic as it was typed
MutNeedsFreshData_CaseSensitive(t) ==
    IF t.none \/ t.text = <<>> THEN FALSE
    ELSE IF KeywordLoop(t.text, 1) THEN TRUE
    ELSE YearSearch(Lower(t.text))

\* needs_fresh_data(topic)
NeedsFreshData(t) ==
    IF t.none \/ t.text = <<>> THEN FALSE
    ELSE LET topic_lower == Lower(t.text) IN
         IF KeywordLoop(topic_lower, 1) THEN TRUE
         ELSE IF YearSearch(topic_lower) THEN TRUE
         ELSE FALSE

FreshIdle == topic = NoneStr /\ needs_fresh = FALSE

-----------------------------------------------------------------------------
(* fresh_data_service.fetch_rss_articles                                   *)

\* RSS_FEEDS has four entries
NumFeeds == 4

\* entry.get(key, default) on an entry whose fields are strings or absent
Get(field, default) == IF field.none THEN default ELSE field.text

\* lines 82-87: the article dict of one entry
MakeArticle(entry) ==
    [title |-> Strip(Get(entry.title, <<>>)),
     summary |-> Strip(Get(entry.summary, Get(entry.description, <<>>))),
     link |-> Strip(Get(entry.link, <<>>)),
     published |-> Get(entry.published, Get(entry.updated, <<>>))]

\* feed.entries[:max_items]
FirstEntries(entries, n) == SubSeq(entries, 1, IF n < Len(entries) THEN n ELSE Len(entries))

\* lines 81-91: the entry loop of one feed, from entry k on
RECURSIVE EntryLoop(_, _, _)
EntryLoop(entries, k, acc) ==
    IF k > Len(entries) THEN acc
    ELSE LET article == MakeArticle(entries[k]) IN
         EntryLoop(entries, k + 1,
                   IF article.title # <<>> /\ article.summary # <<>>
                   THEN Append(acc, article) ELSE acc)

\* a feed whose parse flag is set is read like any other
MutFeedStep_BozoRead(feed, n, acc) ==
    IF feed.kind = "raise" THEN acc
    ELSE EntryLoop(FirstEntries(feed.entries, n), 1, acc)

\* lines 72-95: one feed; a raised exception and a set bozo flag both skip it
FeedStep(feed, n, acc) ==
    IF feed.kind = "raise" THEN acc
    ELSE IF feed.kind = "bozo" THEN acc
    ELSE EntryLoop(FirstEntries(feed.entries, n), 1, acc)

\* lines 69-98: the loop over RSS_FEEDS, from feed f on
RECURSIVE FeedLoop(_, _, _, _)
FeedLoop(fs, f, n, acc) ==
    IF f > Len(fs) THEN acc ELSE FeedLoop(fs, f + 1, n, FeedStep(fs[f], n, acc))

\* fetch_rss_articles(max_items)
FetchRssArticles(fs, n) == [exc |-> "none", val |-> FeedLoop(fs, 1, n, <<>>)]

FetchIdle == feeds = <<>> /\ max_items = 0 /\ fetch_exc = "none"

-----------------------------------------------------------------------------
(* fresh_data_service.build_fresh_context                                  *)

HEADER == <<"=", "=", "=", " ", "R", "E", "C", "E", "N", "T", " ", "D", "A", "T", "A", " ", "=", "=", "=", "\n">>
TRUNCATION_MARKER ==
    <<"\n", "[", "A", "d", "d", "i", "t", "i", "o", "n", "a", "l", " ", "a", "r", "t", "i", "c", "l", "e", "s", " ", "o", "m", "i", "t", "t", "e", "d", " ", "d", "u", "e", " ", "t", "o", " ", "l", "e", "n", "g", "t", "h", " ", "c", "o", "n", "s", "t", "r", "a", "i", "n", "t", "s", "]">>
FOOTER == <<"\n", "=", "=", "=", " ", "E", "N", "D", " ", "D", "A", "T", "A", " ", "=", "=", "=", "\n">>
Ellipsis == <<".", ".", ".">>

\* the summary is cut at this length, to SummaryKeep characters and "..."
SummaryLimit == 100
SummaryKeep == 97

\* the regular expression's \s, on the model's alphabet
ReWhitespace == {" ", "\n", "\t", "\r"}

\* a match of <[^>]+> starts at index k
TagStartsAt(s, k) ==
    /\ At(s, k) = "<"
    /\ At(s, k + 1) \notin {">", "EOF"}
    /\ \E j \in (k + 2)..Len(s) : s[j] = ">"

\* re.sub(r'<[^>]+>', '', s), from index i on: the text up to the next tag,
\* then the text after that tag's first ">"
RECURSIVE RemoveTagsFrom(_, _)
RemoveTagsFrom(s, i) ==
    IF \E k \in i..Len(s) : TagStartsAt(s, k)
    THEN LET k == CHOOSE n \in i..Len(s) :
                    TagStartsAt(s, n) /\ \A m \in i..(n - 1) : ~TagStartsAt(s, m)
             j == CHOOSE n \in (k + 2)..Len(s) :
                    s[n] = ">" /\ \A m \in (k + 2)..(n - 1) : s[m] # ">"
         IN  SubSeq(s, i, k - 1) \o RemoveTagsFrom(s, j + 1)
    ELSE SubSeq(s, i, Len(s))

\* re.sub(r'\s+', ' ', s), from index i on: the text up to the next run of
\* whitespace, one space for the run, then the text after it
RECURSIVE CollapseFrom(_, _)
CollapseFrom(s, i) ==
    IF \E k \in i..Len(s) : s[k] \in ReWhitespace
    THEN LET k == CHOOSE n \in i..Len(s) :
                    s[n] \in ReWhitespace /\ \A m \in i..(n - 1) : s[m] \notin ReWhitespace
             e == CHOOSE n \in k..Len(s) :
                    /\ \A m \in k..n : s[m] \in ReWhitespace
                    /\ At(s, n + 1) \notin ReWhitespace
         IN  SubSeq(s, i, k - 1) \o <<" ">> \o CollapseFrom(s, e + 1)
    ELSE SubSeq(s, i, Len(s))

\* lines 119-124: the cleaned, shortened summary
CleanSummary(raw) ==
    LET summary == Strip(CollapseFrom(RemoveTagsFrom(raw, 1), 1)) IN
    IF Len(summary) > SummaryLimit
    THEN SubSeq(summary, 1, SummaryKeep) \o Ellipsis
    ELSE summary

\* lines 126-129: "\n{idx}. {title}\n{summary}\n"
ArticleText(idx, article) ==
    <<"\n">> \o IntToStr(idx) \o <<".", " ">> \o article.title \o <<"\n">>
        \o CleanSummary(article.summary) \o <<"\n">>

\* the loop goes on after the first article that does not fit
RECURSIVE MutContextLoop_NoBreak(_, _, _, _)
MutContextLoop_NoBreak(arts, idx, context_parts, mc) ==
    IF idx > Len(arts) THEN context_parts
    ELSE LET article_text == ArticleText(idx, arts[idx])
             current_length == Len(Flatten(context_parts))
         IN  IF current_length + Len(article_text) > mc
             THEN MutContextLoop_NoBreak(arts, idx + 1,
                                         Append(context_parts, TRUNCATION_MARKER), mc)
             ELSE MutContextLoop_NoBreak(arts, idx + 1,
                                         Append(context_parts, article_text), mc)

\* lines 117-137: the article loop, from article idx on
RECURSIVE ContextLoop(_, _, _, _)
ContextLoop(arts, idx, context_parts, mc) ==
    IF idx > Len(arts) THEN context_parts
    ELSE LET article_text == ArticleText(idx, arts[idx])
             current_length == Len(Flatten(context_parts))
         IN  IF current_length + Len(article_text) > mc
             THEN Append(context_parts, TRUNCATION_MARKER)
             ELSE ContextLoop(arts, idx + 1, Append(context_parts, article_text), mc)

\* build_fresh_context(articles, max_chars)
BuildFreshContext(arts, mc) ==
    IF arts = <<>> THEN <<>>
    ELSE Flatten(Append(ContextLoop(arts, 1, <<HEADER>>, mc), FOOTER))

CtxIdle == max_chars = 0 /\ fresh_context = NoneStr

NoBackend == [kind |-> "none", envelope |-> NoValue]

\* no finished run is kept
NoRun ==
    [none |-> TRUE, feeds |-> <<>>, fetch_exc |-> "none", answered |-> FALSE,
     generated_text |-> <<>>, enhance_exc |-> "none", image_exc |-> "none",
     calls |-> <<>>, raised |-> FALSE, blog_exc |-> "none", document |-> NoValue]

PairIdle == first = NoRun

TextIdle ==
    /\ environ = <<>>
    /\ config = <<>>
    /\ backend = NoBackend
    /\ posts = <<>>
    /\ text_result = [exc |-> "none", val |-> <<>>]

BlogIdle ==
    /\ op = "none"
    /\ context = NoValue
    /\ base_prompt = <<>>
    /\ ai_json = NoValue
    /\ calls = <<>>
    /\ blog_exc = "none"
    /\ result = NoValue
    /\ enhance_exc = "none"
    /\ image_exc = "none"

-----------------------------------------------------------------------------
(* SpecJson: the normaliser on the texts a backend may return.             *)

MaxPad == 1

\* whitespace around and inside a fence
Pads == UNION {[1..n -> {" ", "\n"}] : n \in 0..MaxPad}

\* well-formed JSON texts with the value json.loads gives for each
ValidCores == {
    [core |-> <<"{", "\"", "a", "\"", ":", " ", "1", "}">>,
     val |-> JObj(<< <<"a">> >>, <<JNum(<<"1">>)>>)],
    [core |-> <<"[", "1", ",", " ", "2", "]">>,
     val |-> JArr(<<JNum(<<"1">>), JNum(<<"2">>)>>)],
    [core |-> <<"\"", "x", "\"">>, val |-> JStr(<<"x">>)],
    [core |-> <<"1", "2">>, val |-> JNum(<<"1", "2">>)],
    [core |-> <<"n", "u", "l", "l">>, val |-> JNull],
    [core |-> <<"{", "}">>, val |-> JObj(<<>>, <<>>)],
    [core |-> <<"{", " ", "\"", "a", "\"", " ", ":", " ", "[", " ", "]", " ", "}">>,
     val |-> JObj(<< <<"a">> >>, <<JArr(<<>>)>>)],
    [core |-> <<"\"", BT, BT, BT, "\"">>, val |-> JStr(<<BT, BT, BT>>)],
    [core |-> <<"{", "\"", "r", "a", "w", "\"", ":", " ", "\"", "x", "\"", "}">>,
     val |-> JObj(<<RawKey>>, <<JStr(<<"x">>)>>)],
    [core |-> <<"{", "\"", "a", "\"", ":", " ", "1", ",", " ",
                "\"", "a", "\"", ":", " ", "2", "}">>,
     val |-> JObj(<< <<"a">> >>, <<JNum(<<"2">>)>>)] }

\* texts that are not JSON, fenced or not
GarbageCores == {
    <<"{", "\"", "a", "\"", ":", " ", "1">>,
    <<"H", "e", "r", "e", " ", "y", "o", "u", " ", "g", "o">>,
    <<"{", "a", ":", " ", "1", "}">>,
    <<"[", "1", ",", "]">>,
    <<>>,
    <<"j", "s", "o", "n">>,
    <<"{", "\"", "a", "\"", ":", " ", "1", "}", " ", "o", "k">>,
    <<BT, BT, BT>>,
    <<"0", "1">> }

Seeds ==
    {[core |-> c.core, valid |-> TRUE, val |-> c.val] : c \in ValidCores}
    \cup {[core |-> g, valid |-> FALSE, val |-> NoValue] : g \in GarbageCores}

Wraps == {"none", "json", "bare"}

\* the backend's text: the core as it is, or inside a code fence
Wrapped(core, wrap, outer, inner) ==
    IF wrap = "none" THEN outer \o core \o outer
    ELSE outer \o (IF wrap = "json" THEN FenceJson ELSE Fence)
               \o inner \o core \o inner \o Fence \o outer

NoJsonResult == [exc |-> "none", val |-> NoValue]

JsonInit ==
    /\ pc = "json_call"
    /\ \E c \in Seeds, w \in Wraps, o \in Pads, i \in Pads :
          seed = [core |-> c.core, valid |-> c.valid, val |-> c.val, wrap |-> w,
                  inner |-> i, response |-> Wrapped(c.core, w, o, i)]
    /\ generated_text = <<>>
    /\ json_result = NoJsonResult
    /\ FreshIdle
    /\ FetchIdle
    /\ articles = <<>>
    /\ CtxIdle
    /\ BlogIdle
    /\ TextIdle
    /\ PairIdle

\* generate_json_response(prompt, ...) on a backend that answers seed.response
GenerateJsonResponse ==
    /\ pc = "json_call"
    /\ generated_text' = GenerateTextOk(seed.response)
    /\ json_result' = NormalizeJson(generated_text')
    /\ pc' = "json_done"
    /\ UNCHANGED <<seed, freshVars, fetchVars, articles, ctxVars, blogVars, textVars, pairVars>>

JsonNext == GenerateJsonResponse

SpecJson == JsonInit /\ [][JsonNext]_vars

\* C2: generate_json_response never raises on a text the backend returned, and
\* for a text that is not JSON (fenced or not) its result is exactly
\* {"raw": T}, T the text generate_text returned, fences included.
C2_NeverRaisesRawIsOriginal ==
    pc = "json_done" =>
        /\ json_result.exc = "none"
        /\ ~seed.valid =>
              json_result.val = JObj(<<RawKey>>, <<JStr(generated_text)>>)

\* a fenced non-JSON text came back as {"raw": T} with its fences
C2_Witness ==
    /\ pc = "json_done"
    /\ ~seed.valid
    /\ seed.wrap = "json"
    /\ seed.core # <<>>
    /\ json_result.val = JObj(<<RawKey>>, <<JStr(generated_text)>>)
    /\ StartsWith(generated_text, FenceJson)
    /\ CleanFences(generated_text) = seed.core

\* C3: a well-formed JSON text parses to the same object bare, inside a
\* ```json fence and inside a ``` fence, whatever whitespace surrounds it.
C3_FenceInvariant ==
    (pc = "json_done" /\ seed.valid) =>
        json_result = [exc |-> "none", val |-> seed.val]

\* a JSON object inside a bare fence, on lines of its own, was parsed
C3_Witness ==
    /\ pc = "json_done"
    /\ seed.valid
    /\ seed.wrap = "bare"
    /\ seed.inner = <<"\n">>
    /\ seed.val.t = "obj"
    /\ json_result.val = seed.val

-----------------------------------------------------------------------------
(* SpecFresh: the freshness classifier on topics.                          *)

MaxPieces == 2

\* what topics are made of: vocabulary terms, near misses, years, separators
TopicPieces == {
    <<"l", "a", "t", "e", "s", "t">>,
    <<"r", "e", "c", "e", "n", "t">>,
    <<"u", "p", "d", "a", "t", "e">>,
    <<"t", "r", "e", "n", "d", "s">>,
    <<"t", "r", "e", "n", "d">>,
    <<"n", "e", "w">>,
    <<"N", "E", "W">>,
    <<"c", "u", "r", "r", "e", "n", "t">>,
    <<"n", "o", "w">>,
    <<"t", "o", "d", "a", "y">>,
    <<"b", "r", "e", "a", "k", "i", "n", "g">>,
    <<"n", "e", "w", "s">>,
    <<"s", "e", "o">>,
    <<" ">>,
    <<"_">>,
    <<"x">>,
    <<"1">>,
    <<"2", "0", "2", "3">>,
    <<"2", "0", "2", "4">>,
    <<"2", "0", "2", "7">>,
    <<"2", "0", "3", "9">>,
    <<"2", "0", "4", "0">>,
    <<"2", "0">>,
    <<"2", "7">>,
    <<"T", "r", "e", "n", "d">>,
    <<"s">> }

Topics == {Flatten(ps) : ps \in UNION {[1..n -> TopicPieces] : n \in 0..MaxPieces}}

NoSeed == [core |-> <<>>, valid |-> FALSE, val |-> NoValue, wrap |-> "none",
           inner |-> <<>>, response |-> <<>>]

JsonIdle == seed = NoSeed /\ generated_text = <<>> /\ json_result = NoJsonResult

FreshInit ==
    /\ pc = "fresh_call"
    /\ topic \in {NoneStr} \cup {Some(t) : t \in Topics}
    /\ needs_fresh = FALSE
    /\ JsonIdle
    /\ FetchIdle
    /\ articles = <<>>
    /\ CtxIdle
    /\ BlogIdle
    /\ TextIdle
    /\ PairIdle

\* needs_fresh_data(topic)
NeedsFreshDataCall ==
    /\ pc = "fresh_call"
    /\ needs_fresh' = NeedsFreshData(topic)
    /\ pc' = "fresh_done"
    /\ UNCHANGED <<topic, jsonVars, fetchVars, articles, ctxVars, blogVars, textVars, pairVars>>

FreshNext == NeedsFreshDataCall

SpecFresh == FreshInit /\ [][FreshNext]_vars

\* the same letter, whatever its case
SameLetter(a, b) ==
    \/ a = b
    \/ \E k \in 1..26 : {a, b} = {UpperLetters[k], LowerLetters[k]}

ContainsIgnoreCase(s, term) ==
    \E i \in 1..(Len(s) - Len(term) + 1) :
        \A j \in 1..Len(term) : SameLetter(s[i + j - 1], term[j])

HasVocabularyTerm(s) ==
    \E k \in 1..Len(FRESH_DATA_KEYWORDS) : ContainsIgnoreCase(s, FRESH_DATA_KEYWORDS[k])

YearText(y) ==
    <<DigitChar(y \div 1000), DigitChar((y \div 100) % 10),
      DigitChar((y \div 10) % 10), DigitChar(y % 10)>>

FirstYear == 2024
LastYear == 2039

\* a 4-digit number that is a year of the range (no digit before or after)
HasYearNumber(s) ==
    \E y \in FirstYear..LastYear, i \in 1..Len(s) :
        /\ HasAt(s, i, YearText(y))
        /\ At(s, i - 1) \notin Digits
        /\ At(s, i + 4) \notin Digits

\* a year of the range standing as a word: no letter, digit or underscore
\* directly before or after it
HasYearWord(s) ==
    \E y \in FirstYear..LastYear, i \in 1..Len(s) :
        /\ HasAt(s, i, YearText(y))
        /\ ~IsWordChar(At(s, i - 1))
        /\ ~IsWordChar(At(s, i + 4))

\* C4 as stated: needs_fresh_data is true for a topic that contains a
\* vocabulary term (any case) or a 4-digit year 2024..2039, false otherwise.
C4_AsClaimed ==
    pc = "fresh_done" =>
        needs_fresh = (~topic.none /\ (HasVocabularyTerm(topic.text)
                                        \/ HasYearNumber(topic.text)))

\* C4: needs_fresh_data is true for a topic that contains a vocabulary term
\* (any case) or a year 2024..2039 standing as a whole word, and false for
\* every other topic, the empty and the absent one included.
C4_NeedsFreshIff ==
    pc = "fresh_done" =>
        needs_fresh = (~topic.none /\ (HasVocabularyTerm(topic.text)
                                        \/ HasYearWord(topic.text)))

\* a topic with no vocabulary term was judged fresh for its year alone
C4_Witness ==
    /\ pc = "fresh_done"
    /\ needs_fresh
    /\ ~HasVocabularyTerm(topic.text)
    /\ HasYearWord(topic.text)
    /\ Len(topic.text) > 4

ClaimedTerms == {
    <<"l", "a", "t", "e", "s", "t">>,
    <<"u", "p", "d", "a", "t", "e">>,
    <<"t", "r", "e", "n", "d">>,
    <<"n", "e", "w">>,
    <<"c", "u", "r", "r", "e", "n", "t">>,
    <<"t", "o", "d", "a", "y">>,
    <<"b", "r", "e", "a", "k", "i", "n", "g">>,
    <<"n", "e", "w", "s">> }

ListedTerms == {
    <<"l", "a", "t", "e", "s", "t">>,
    <<"u", "p", "d", "a", "t", "e">>,
    <<"t", "r", "e", "n", "d", "s">>,
    <<"n", "e", "w">>,
    <<"c", "u", "r", "r", "e", "n", "t">>,
    <<"t", "o", "d", "a", "y">>,
    <<"b", "r", "e", "a", "k", "i", "n", "g">>,
    <<"n", "e", "w", "s">> }

\* C5 as stated: a topic whose lower-cased form contains one of "latest",
\* "update", "trend", "new", "current", "today", "breaking", "news" is fresh.
C5_AsClaimed ==
    pc = "fresh_done" =>
        \A term \in ClaimedTerms :
            (~topic.none /\ Contains(Lower(topic.text), term)) => needs_fresh

\* C5: a topic whose lower-cased form contains one of "latest", "update",
\* "trends", "new", "current", "today", "breaking", "news" is fresh.
C5_ListedTermsAreFresh ==
    pc = "fresh_done" =>
        \A term \in ListedTerms :
            (~topic.none /\ Contains(Lower(topic.text), term)) => needs_fresh

\* a topic typed in capitals was judged fresh for a listed term
C5_Witness ==
    /\ pc = "fresh_done"
    /\ needs_fresh
    /\ Contains(topic.text, <<"N", "E", "W">>)
    /\ ~HasYearWord(topic.text)
    /\ \A term \in ListedTerms : ~Contains(topic.text, term)

-----------------------------------------------------------------------------
(* SpecFetch: the article fetcher on feeds that parse, fail or are flagged. *)

MaxItems == 3

EntryGood ==
    [title |-> Some(<<"A">>), summary |-> Some(<<"s", "a">>), description |-> NoneStr,
     link |-> Some(<<"l">>), published |-> Some(<<"p">>), updated |-> NoneStr]
EntryPadded ==
    [title |-> Some(<<" ", "B", " ">>), summary |-> NoneStr, description |-> Some(<<" ", "s", "b", "\n">>),
     link |-> Some(<<" ", "l", " ">>), published |-> NoneStr, updated |-> NoneStr]
EntryBlankTitle ==
    [title |-> Some(<<" ", " ">>), summary |-> Some(<<"x">>), description |-> NoneStr,
     link |-> NoneStr, published |-> NoneStr, updated |-> NoneStr]
EntryNoSummary ==
    [title |-> Some(<<"C">>), summary |-> NoneStr, description |-> NoneStr,
     link |-> NoneStr, published |-> NoneStr, updated |-> NoneStr]
EntryUpdated ==
    [title |-> Some(<<"D">>), summary |-> Some(<<"s", "d">>), description |-> NoneStr,
     link |-> NoneStr, published |-> NoneStr, updated |-> Some(<<"u">>)]

\* what feedparser.parse may give for one feed: an exception, a feed with
\* the bozo flag set, or a parsed feed
FeedChoices == {
    [kind |-> "raise", entries |-> <<>>],
    [kind |-> "bozo", entries |-> <<EntryGood>>],
    [kind |-> "ok", entries |-> <<>>],
    [kind |-> "ok", entries |-> <<EntryGood, EntryBlankTitle, EntryPadded>>],
    [kind |-> "ok", entries |-> <<EntryNoSummary, EntryUpdated, EntryGood, EntryPadded>>] }

FetchInit ==
    /\ pc = "fetch_call"
    /\ feeds \in [1..NumFeeds -> FeedChoices]
    /\ max_items \in 0..MaxItems
    /\ fetch_exc = "none"
    /\ articles = <<>>
    /\ JsonIdle
    /\ FreshIdle
    /\ CtxIdle
    /\ BlogIdle
    /\ TextIdle
    /\ PairIdle

\* fetch_rss_articles(max_items)
FetchRssArticlesCall ==
    /\ pc = "fetch_call"
    /\ fetch_exc' = FetchRssArticles(feeds, max_items).exc
    /\ articles' = FetchRssArticles(feeds, max_items).val
    /\ pc' = "fetch_done"
    /\ UNCHANGED <<feeds, max_items, jsonVars, freshVars, ctxVars, blogVars, textVars, pairVars>>

FetchNext == FetchRssArticlesCall

SpecFetch == FetchInit /\ [][FetchNext]_vars

\* entry k of feed f is one the fetcher is to return
KeptEntry(f, k) ==
    /\ feeds[f].kind = "ok"
    /\ k <= Len(feeds[f].entries)
    /\ k <= max_items
    /\ MakeArticle(feeds[f].entries[k]).title # <<>>
    /\ MakeArticle(feeds[f].entries[k]).summary # <<>>

KeptEntries ==
    {p \in (1..NumFeeds) \X (1..(max_items + 1)) : KeptEntry(p[1], p[2])}

\* source-list order, then feed order
ComesBefore(p, q) == p[1] < q[1] \/ (p[1] = q[1] /\ p[2] < q[2])

\* C9: fetch_rss_articles never raises and returns, in source-list order and
\* feed order, exactly the entries of the feeds that neither raised nor were
\* flagged, among each feed's first max_items, that keep a non-empty title
\* and summary after trimming.
C9_FetchSkipsFailedFeeds ==
    pc = "fetch_done" =>
        /\ fetch_exc = "none"
        /\ Len(articles) = Cardinality(KeptEntries)
        /\ \A p \in KeptEntries :
              articles[Cardinality({q \in KeptEntries : ComesBefore(q, p)}) + 1]
                  = MakeArticle(feeds[p[1]].entries[p[2]])

\* one feed raised, one was flagged, and two others gave their articles,
\* one of them cut at max_items
C9_Witness ==
    /\ pc = "fetch_done"
    /\ feeds[1].kind = "ok" /\ Len(feeds[1].entries) > max_items
    /\ feeds[2].kind = "raise"
    /\ feeds[3].kind = "bozo"
    /\ feeds[4].kind = "ok"
    /\ \E p, q \in KeptEntries : p[1] = 1 /\ q[1] = 4
    /\ Len(articles) = Cardinality(KeptEntries)

-----------------------------------------------------------------------------
(* SpecCtx: the context builder on article lists and character budgets.   *)

MaxArticles == 3
MaxChars == 160

\* a summary one character over the limit
LongSummary == [i \in 1..(SummaryLimit + 1) |-> IF i % 7 = 0 THEN " " ELSE "s"]

ArticlePool == {
    [title |-> <<"W", "P", " ", "6", ".", "5">>, summary |-> <<"<", "p", ">", "F", "o", "n", "t", " ", " ", "l", "i", "b", "r", "a", "r", "y", "<", "/", "p", ">">>,
     link |-> <<>>, published |-> <<>>],
    [title |-> <<"C", "o", "r", "e", " ", "u", "p", "d", "a", "t", "e">>, summary |-> LongSummary,
     link |-> <<>>, published |-> <<>>],
    [title |-> <<"S", "E", "O">>, summary |-> <<"a", "<", "b">>,
     link |-> <<>>, published |-> <<>>] }

CtxInit ==
    /\ pc = "ctx_call"
    /\ articles \in UNION {[1..n -> ArticlePool] : n \in 0..MaxArticles}
    /\ max_chars \in 0..MaxChars
    /\ fresh_context = NoneStr
    /\ JsonIdle
    /\ FreshIdle
    /\ FetchIdle
    /\ BlogIdle
    /\ TextIdle
    /\ PairIdle

\* build_fresh_context(articles, max_chars)
BuildFreshContextCall ==
    /\ pc = "ctx_call"
    /\ fresh_context' = Some(BuildFreshContext(articles, max_chars))
    /\ pc' = "ctx_done"
    /\ UNCHANGED <<articles, max_chars, jsonVars, freshVars, fetchVars, blogVars, textVars, pairVars>>

CtxNext == BuildFreshContextCall

SpecCtx == CtxInit /\ [][CtxNext]_vars

\* C6 as stated: the string build_fresh_context returns is never longer than
\* max_chars plus the length of one truncation marker.
C6_AsClaimed ==
    pc = "ctx_done" => Len(fresh_context.text) <= max_chars + Len(TRUNCATION_MARKER)

-----------------------------------------------------------------------------
(* ai_service: generate_detailed_blog and generate_blog_with_image.        *)
(* A block of literal template text is one atom of the prompt; no topic,   *)
(* title or summary of the model is made of template text.                 *)

\* the values ai_service passes for max_items and max_chars
BLOG_MAX_ITEMS == 3
BLOG_MAX_CHARS == 1200

\* `if x:` on an optional string
TruthyStr(x) == ~x.none /\ x.text # <<>>

\* the body template leaves the fetched data out
MutBlogPostWithFreshData_DataDropped(t, fc) ==
    <<"FRESH_HEAD">> \o t \o <<"FRESH_DATA_LABEL", "FRESH_RULES">>

\* PromptTemplates.blog_post_with_fresh_data(topic, fresh_context)
BlogPostWithFreshData(t, fc) ==
    <<"FRESH_HEAD">> \o t \o <<"FRESH_DATA_LABEL">> \o fc \o <<"FRESH_RULES">>

\* PromptTemplates.blog_post_evergreen(topic)
BlogPostEvergreen(t) == <<"EVERGREEN_HEAD">> \o t \o <<"EVERGREEN_RULES">>

\* the evergreen template whatever was built
MutSelectTemplate_AlwaysEvergreen(t, fc) == BlogPostEvergreen(t)

\* step 2: the body template, chosen by the truth value of fresh_context
SelectTemplate(t, fc) ==
    IF TruthyStr(fc) THEN BlogPostWithFreshData(t, fc.text) ELSE BlogPostEvergreen(t)

\* the caller's context takes the place of the template
MutWithContext_Replaces(prompt, ctx) ==
    IF Truthy(ctx) THEN <<"\n", "\n", "CONTEXT_LABEL">> \o Dumps(ctx) ELSE prompt

\* the caller's context, appended when it is truthy
WithContext(prompt, ctx) ==
    IF Truthy(ctx) THEN prompt \o <<"\n", "\n", "CONTEXT_LABEL">> \o Dumps(ctx) ELSE prompt

\* generate_text's full prompt: the system prompt, a blank line, the prompt
FullPrompt(system_prompt, prompt) ==
    IF system_prompt # <<>> THEN system_prompt \o <<"\n", "\n">> \o prompt ELSE prompt

\* PromptTemplates.blog_metadata_system_prompt()
BlogMetadataSystemPrompt == <<"METADATA_SYSTEM_PROMPT">>

\* str(v) inside an f-string, for a str or a number
Format(v) == v.s

\* enhance_image_prompt's prompt around the basic prompt
EnhancementPrompt(basic_prompt) ==
    <<"ENHANCE_HEAD">> \o Format(basic_prompt) \o <<"ENHANCE_TAIL">>

\* v[:100] raises TypeError unless v is a str or a list
Sliceable(v) == v.t \in {"str", "arr"}

Call(svc, by, prompt) == [svc |-> svc, by |-> by, prompt |-> prompt]

\* an exception out of the fetcher or the builder leaves the operation
MutFreshStep_FaultEscapes(needs, fs, fault) ==
    LET arts == IF fault = "fetch" THEN <<>> ELSE FetchRssArticles(fs, BLOG_MAX_ITEMS).val IN
    IF ~needs
    THEN [called |-> FALSE, articles |-> <<>>, fresh_context |-> NoneStr,
          caught |-> "none", exc |-> "none"]
    ELSE IF fault = "fetch" \/ (arts # <<>> /\ fault = "build")
    THEN [called |-> TRUE, articles |-> arts, fresh_context |-> NoneStr,
          caught |-> "none", exc |-> "Exception"]
    ELSE [called |-> TRUE, articles |-> arts,
          fresh_context |-> IF arts # <<>>
                            THEN Some(BuildFreshContext(arts, BLOG_MAX_CHARS)) ELSE NoneStr,
          caught |-> "none", exc |-> "none"]

\* step 1 after the classification: the fetch and the context, inside a try
\* whose handler logs any Exception and goes on.  fault is an exception out
\* of fetch_rss_articles ("fetch") or out of build_fresh_context ("build");
\* caught is what the handler logged, exc what leaves the step.
FreshStep(needs, fs, fault) ==
    LET arts == IF fault = "fetch" THEN <<>> ELSE FetchRssArticles(fs, BLOG_MAX_ITEMS).val IN
    IF ~needs
    THEN [called |-> FALSE, articles |-> <<>>, fresh_context |-> NoneStr,
          caught |-> "none", exc |-> "none"]
    ELSE IF fault = "fetch" \/ (arts # <<>> /\ fault = "build")
    THEN [called |-> TRUE, articles |-> arts, fresh_context |-> NoneStr,
          caught |-> "Exception", exc |-> "none"]
    ELSE [called |-> TRUE, articles |-> arts,
          fresh_context |-> IF arts # <<>>
                            THEN Some(BuildFreshContext(arts, BLOG_MAX_CHARS)) ELSE NoneStr,
          caught |-> "none", exc |-> "none"]

FEATURED_IMAGE_PROMPT == <<"f", "e", "a", "t", "u", "r", "e", "d", "_", "i", "m", "a", "g", "e", "_", "p", "r", "o", "m", "p", "t">>
FEATURED_IMAGE_URL == <<"f", "e", "a", "t", "u", "r", "e", "d", "_", "i", "m", "a", "g", "e", "_", "u", "r", "l">>
KEYWORD == <<"k", "e", "y", "w", "o", "r", "d">>
BLOG == <<"b", "l", "o", "g">>

\* enhance_image_prompt returns the basic prompt itself on a failure
MutEnhanceImagePrompt_EmptyOnFailure(basic_prompt, enhance_ok) ==
    [exc |-> "none",
     swallowed |-> IF enhance_ok THEN "none" ELSE "Exception",
     val |-> IF enhance_ok THEN JStr(<<"ENHANCED_PROMPT">>) ELSE JStr(<<>>),
     calls |-> <<Call("ollama", "enhance_image_prompt",
                      FullPrompt(<<>>, EnhancementPrompt(basic_prompt)))>>]

\* enhance_image_prompt(basic_prompt): one generate_text call; whether it
\* succeeds is the backend's choice.  Any Exception is logged and swallowed
\* and the basic prompt is returned as it came.
EnhanceImagePrompt(basic_prompt, enhance_ok) ==
    [exc |-> "none",
     swallowed |-> IF enhance_ok THEN "none" ELSE "Exception",
     val |-> IF enhance_ok THEN JStr(<<"ENHANCED_PROMPT">>) ELSE basic_prompt,
     calls |-> <<Call("ollama", "enhance_image_prompt",
                      FullPrompt(<<>>, EnhancementPrompt(basic_prompt)))>>]

\* the image backend is called before the enhancement
MutGenerateFeaturedImage_ImageFirst(prompt, enhance_ok, image_ok) ==
    LET enhanced == EnhanceImagePrompt(prompt, enhance_ok) IN
    IF ~Sliceable(prompt)
    THEN [calls |-> enhanced.calls, swallowed |-> enhanced.swallowed,
          exc |-> "TypeError", url |-> NoValue]
    ELSE [calls |-> <<Call("dalle", "generate_featured_image", Format(prompt))>>
                        \o enhanced.calls,
          swallowed |-> enhanced.swallowed,
          exc |-> IF image_ok THEN "none" ELSE "Exception",
          url |-> IF image_ok THEN JStr(<<"IMAGE_URL">>) ELSE NoValue]

\* generate_featured_image(prompt) on a truthy prompt: the enhancement, the
\* two logged slices (TypeError on a prompt that cannot be sliced), then the
\* image call, whose success is the image backend's choice.  exc is the
\* exception raised to the caller, url the value returned when there is none.
GenerateFeaturedImage(prompt, enhance_ok, image_ok) ==
    LET enhanced == EnhanceImagePrompt(prompt, enhance_ok) IN
    IF ~Sliceable(prompt)
    THEN [calls |-> enhanced.calls, swallowed |-> enhanced.swallowed,
          exc |-> "TypeError", url |-> NoValue]
    ELSE [calls |-> enhanced.calls
                        \o <<Call("dalle", "generate_featured_image", Format(enhanced.val))>>,
          swallowed |-> enhanced.swallowed,
          exc |-> IF image_ok THEN "none" ELSE "Exception",
          url |-> IF image_ok THEN JStr(<<"IMAGE_URL">>) ELSE NoValue]

\* a failed image step leaves the dict as it was
MutImageStep_KeyLeftOut(d, r) ==
    IF r.exc = "none" THEN DictPut(d, FEATURED_IMAGE_URL, r.url) ELSE d

\* the try around generate_featured_image: the url on success, None when
\* it raised
ImageStep(d, r) ==
    DictPut(d, FEATURED_IMAGE_URL, IF r.exc = "none" THEN r.url ELSE JNull)

-----------------------------------------------------------------------------
(* SpecBlog: the two blog operations, one step per call they make.         *)

MaxEntries == 4

BlogTopics == {
    <<"S", "E", "O", " ", "t", "r", "e", "n", "d", "s", " ", "2", "0", "2", "5">>,
    <<"S", "E", "O", " ", "t", "i", "p", "s">>,
    <<"s", "2", "0", "2", "7">>,
    <<"B", "r", "e", "a", "k", "i", "n", "g", " ", "N", "e", "w", "s">> }

BlogContexts == {
    NoValue,
    JObj(<<>>, <<>>),
    JObj(<<<<"p", "r", "e", "v", "i", "o", "u", "s">>>>, <<JStr(<<"O", "l", "d", " ", "\"", "p", "o", "s", "t", "\"">>)>>) }

\* entry k of feed f: a title of its own and a summary over the limit
BigEntry(f, k) ==
    [title |-> Some(<<"N", "e", "w", "s", " ", DigitChar(f), "-", DigitChar(k)>>),
     summary |-> Some(LongSummary), description |-> NoneStr,
     link |-> Some(<<"l">>), published |-> NoneStr, updated |-> NoneStr]

BigFeed(f) == [kind |-> "ok", entries |-> [k \in 1..MaxEntries |-> BigEntry(f, k)]]

\* what the four feeds give: nothing but failures, nothing but empty feeds,
\* a mix, and four full feeds
BlogFeeds == {
    [f \in 1..NumFeeds |-> [kind |-> "raise", entries |-> <<>>]],
    [f \in 1..NumFeeds |-> [kind |-> "ok", entries |-> <<>>]],
    <<[kind |-> "raise", entries |-> <<>>],
      [kind |-> "bozo", entries |-> <<EntryGood>>],
      [kind |-> "ok", entries |-> <<EntryGood, EntryBlankTitle, EntryPadded>>],
      [kind |-> "ok", entries |-> <<>>]>>,
    [f \in 1..NumFeeds |-> BigFeed(f)] }

Faults == {"none", "fetch", "build"}

\* the response field of the backend's answer to the metadata call
MetadataTexts == {
    <<" ", "{", "\"", "t", "i", "t", "l", "e", "\"", ":", " ", "\"", "T", "\"", ",", " ", "\"", "f", "e", "a", "t", "u", "r", "e", "d", "_", "i", "m", "a", "g", "e", "_", "p", "r", "o", "m", "p", "t", "\"", ":", " ", "\"", "d", "e", "s", "k", "\"", ",", " ", "\"", "m", "e", "t", "a", "_", "d", "e", "s", "c", "r", "i", "p", "t", "i", "o", "n", "\"", ":", " ", "\"", "M", "\"", ",", " ", "\"", "c", "o", "n", "t", "e", "n", "t", "\"", ":", " ", "\"", "C", "\"", "}", "\n">>,
    <<BT, BT, BT, "j", "s", "o", "n", "\n", "{", "\"", "t", "i", "t", "l", "e", "\"", ":", " ", "\"", "T", "\"", ",", " ", "\"", "f", "e", "a", "t", "u", "r", "e", "d", "_", "i", "m", "a", "g", "e", "_", "p", "r", "o", "m", "p", "t", "\"", ":", " ", "\"", "d", "e", "s", "k", "\"", "}", "\n", BT, BT, BT>>,
    <<"{", "\"", "t", "i", "t", "l", "e", "\"", ":", " ", "\"", "T", "\"", "}">>,
    <<"{", "\"", "t", "i", "t", "l", "e", "\"", ":", " ", "\"", "T", "\"", ",", " ", "\"", "f", "e", "a", "t", "u", "r", "e", "d", "_", "i", "m", "a", "g", "e", "_", "u", "r", "l", "\"", ":", " ", "\"", "u", "\"", "}">>,
    <<"{", "\"", "f", "e", "a", "t", "u", "r", "e", "d", "_", "i", "m", "a", "g", "e", "_", "p", "r", "o", "m", "p", "t", "\"", ":", " ", "\"", "\"", "}">>,
    <<"{", "\"", "f", "e", "a", "t", "u", "r", "e", "d", "_", "i", "m", "a", "g", "e", "_", "p", "r", "o", "m", "p", "t", "\"", ":", " ", "7", "}">>,
    <<"S", "u", "r", "e", "!", " ", "H", "e", "r", "e">>,
    <<"{", "\"", "t", "i", "t", "l", "e", "\"", ":", " ", "\"", "T">>,
    <<>>,
    <<"[", "1", ",", " ", "2", "]">>,
    <<"[", "]">>,
    <<"\"", "x", "\"">>,
    <<"1", "2">>,
    <<"n", "u", "l", "l">> }

BlogInit ==
    /\ pc = "blog_start"
    /\ op \in {"detailed", "with_image"}
    /\ topic \in {Some(t) : t \in BlogTopics}
    /\ context \in (IF op = "detailed" THEN BlogContexts ELSE {NoValue})
    /\ needs_fresh = FALSE
    /\ JsonIdle
    /\ FetchIdle
    /\ articles = <<>>
    /\ CtxIdle
    /\ base_prompt = <<>>
    /\ ai_json = NoValue
    /\ calls = <<>>
    /\ blog_exc = "none"
    /\ result = NoValue
    /\ enhance_exc = "none"
    /\ image_exc = "none"
    /\ TextIdle
    /\ PairIdle

\* steps 1: needs_fresh_data, then the fetch and the context inside the try
CheckFreshData ==
    /\ pc = "blog_start"
    /\ needs_fresh' = NeedsFreshData(topic)
    /\ \E fs \in BlogFeeds, fault \in Faults :
          LET r == FreshStep(needs_fresh', fs, fault) IN
          /\ feeds' = IF r.called /\ fault # "fetch" THEN fs ELSE <<>>
          /\ max_items' = IF r.called THEN BLOG_MAX_ITEMS ELSE 0
          /\ max_chars' = IF r.articles # <<>> THEN BLOG_MAX_CHARS ELSE 0
          /\ fetch_exc' = r.caught
          /\ articles' = r.articles
          /\ fresh_context' = r.fresh_context
          /\ calls' = IF r.called
                      THEN Append(calls, Call("rss", "fetch_rss_articles", <<>>))
                      ELSE calls
          /\ blog_exc' = r.exc
          /\ pc' = IF r.exc # "none" THEN "blog_raised" ELSE "blog_prompt"
    /\ UNCHANGED <<topic, jsonVars, op, context, base_prompt, ai_json, result, imageVars, textVars, pairVars>>

\* step 2: the body prompt, and the caller's context after it
BuildPrompt ==
    /\ pc = "blog_prompt"
    /\ base_prompt' = WithContext(SelectTemplate(topic.text, fresh_context), context)
    /\ pc' = "blog_metadata"
    /\ UNCHANGED <<jsonVars, freshVars, fetchVars, articles, ctxVars,
                   op, context, ai_json, calls, blog_exc, result, imageVars, textVars, pairVars>>

\* step 3: generate_blog_metadata; the backend fails, or answers with a text
GenerateBlogMetadata ==
    /\ pc = "blog_metadata"
    /\ calls' = Append(calls, Call("ollama", "generate_blog_metadata",
                                   FullPrompt(BlogMetadataSystemPrompt, base_prompt)))
    /\ \/ /\ blog_exc' = "Exception"
          /\ pc' = "blog_raised"
          /\ UNCHANGED <<jsonVars, ai_json>>
       \/ \E response \in MetadataTexts :
             /\ generated_text' = GenerateTextOk(response)
             /\ json_result' = NormalizeJson(generated_text')
             /\ ai_json' = json_result'.val
             /\ blog_exc' = json_result'.exc
             /\ pc' = IF json_result'.exc # "none" THEN "blog_raised" ELSE "blog_image"
             /\ UNCHANGED seed
    /\ UNCHANGED <<freshVars, fetchVars, articles, ctxVars, op, context, base_prompt, result,
                   imageVars, textVars, pairVars>>

\* step 4: ai_json.get(...), and the featured image when the prompt is truthy
FeaturedImage ==
    /\ pc = "blog_image"
    /\ \/ /\ ai_json.t # "obj"
          /\ blog_exc' = "AttributeError"
          /\ pc' = "blog_raised"
          /\ UNCHANGED <<ai_json, calls, imageVars>>
       \/ /\ ai_json.t = "obj"
          /\ ~Truthy(DictGet(ai_json, FEATURED_IMAGE_PROMPT, JStr(<<>>)))
          /\ pc' = "blog_return"
          /\ UNCHANGED <<ai_json, calls, blog_exc, imageVars>>
       \/ /\ ai_json.t = "obj"
          /\ Truthy(DictGet(ai_json, FEATURED_IMAGE_PROMPT, JStr(<<>>)))
          /\ \E enhance_ok \in BOOLEAN, image_ok \in BOOLEAN :
                LET r == GenerateFeaturedImage(
                             DictGet(ai_json, FEATURED_IMAGE_PROMPT, JStr(<<>>)),
                             enhance_ok, image_ok) IN
                /\ calls' = calls \o r.calls
                /\ ai_json' = ImageStep(ai_json, r)
                /\ enhance_exc' = r.swallowed
                /\ image_exc' = r.exc
          /\ pc' = "blog_return"
          /\ UNCHANGED blog_exc
    /\ UNCHANGED <<jsonVars, freshVars, fetchVars, articles, ctxVars,
                   op, context, base_prompt, result, textVars, pairVars>>

\* the keyword is not attached
MutAttachKeyword_Skipped(o, d, t) == d

\* generate_detailed_blog line 84: ai_json["keyword"] = keyword
AttachKeyword(o, d, t) == IF o = "detailed" THEN DictPut(d, KEYWORD, JStr(t)) ELSE d

\* generate_blog_with_image returns an empty dict
MutReturnValue_WithImageEmpty(o, d, t) ==
    IF o = "detailed" THEN JObj(<<KEYWORD, BLOG>>, <<JStr(t), JStr(Dumps(d))>>)
    ELSE JObj(<<>>, <<>>)

\* what is returned: the keyword and the serialised dict (line 85), or the
\* dict itself (line 198)
ReturnValue(o, d, t) ==
    IF o = "detailed" THEN JObj(<<KEYWORD, BLOG>>, <<JStr(t), JStr(Dumps(d))>>) ELSE d

\* the return: generate_detailed_blog attaches the keyword and serialises,
\* generate_blog_with_image returns the dict
ReturnBlog ==
    /\ pc = "blog_return"
    /\ ai_json' = AttachKeyword(op, ai_json, topic.text)
    /\ result' = ReturnValue(op, ai_json', topic.text)
    /\ pc' = "blog_done"
    /\ UNCHANGED <<jsonVars, freshVars, fetchVars, articles, ctxVars,
                   op, context, base_prompt, calls, blog_exc, imageVars, textVars, pairVars>>

BlogNext ==
    \/ CheckFreshData
    \/ BuildPrompt
    \/ GenerateBlogMetadata
    \/ FeaturedImage
    \/ ReturnBlog

SpecBlog == BlogInit /\ [][BlogNext]_vars

\* the prompts sent to the text backend by generate_blog_metadata
MetadataPrompts ==
    {calls[i].prompt : i \in {n \in 1..Len(calls) : calls[n].by = "generate_blog_metadata"}}

FetcherInvoked == \E i \in 1..Len(calls) : calls[i].svc = "rss"

UsesFreshTemplate(prompt) == \E i \in 1..Len(prompt) : prompt[i] = "FRESH_RULES"
UsesEvergreenTemplate(prompt) == \E i \in 1..Len(prompt) : prompt[i] = "EVERGREEN_RULES"

\* C1 as stated: once the backend has answered the metadata call with a text,
\* whatever the text, the blog operation does not raise: it returns a result.
C1_AsClaimed ==
    (op # "none" /\ json_result.val # NoValue) => pc # "blog_raised"

\* C7: once the body prompt is built it is the fresh-data template exactly
\* when a non-empty fresh context was built for this request, and the
\* evergreen template exactly otherwise; a context is built exactly when the
\* topic needs fresh data and the fetch gave articles without an exception;
\* the prompt sent to the backend is that body prompt; and for a topic that
\* does not need fresh data the fetcher is never invoked.
C7_TemplateFollowsFreshContext ==
    op # "none" =>
        /\ ~needs_fresh => ~FetcherInvoked
        /\ pc # "blog_start" =>
              (TruthyStr(fresh_context) <=>
                   (needs_fresh /\ articles # <<>> /\ fetch_exc = "none"))
        /\ base_prompt # <<>> =>
              /\ UsesFreshTemplate(base_prompt) <=> TruthyStr(fresh_context)
              /\ UsesEvergreenTemplate(base_prompt) <=> ~TruthyStr(fresh_context)
        /\ \A sent \in MetadataPrompts :
              sent = FullPrompt(BlogMetadataSystemPrompt, base_prompt)

\* a finished generate_blog_with_image that used the fresh-data template
C7_Witness ==
    /\ op = "with_image"
    /\ pc = "blog_done"
    /\ TruthyStr(fresh_context)
    /\ UsesFreshTemplate(base_prompt)
    /\ MetadataPrompts # {}

\* the length of the context parts before article j: the header and the
\* entries of the articles before it
RECURSIVE LengthBefore(_, _)
LengthBefore(arts, j) ==
    IF j = 1 THEN Len(HEADER)
    ELSE LengthBefore(arts, j - 1) + Len(ArticleText(j - 1, arts[j - 1]))

\* the articles build_fresh_context includes: those before the first whose
\* entry would bring the context over max_chars
Included(arts, mc) ==
    {k \in 1..Len(arts) :
        \A j \in 1..k : LengthBefore(arts, j) + Len(ArticleText(j, arts[j])) <= mc}

\* generate_detailed_blog took the fresh-data path and sent its prompt
FreshPathSent ==
    /\ op = "detailed"
    /\ needs_fresh
    /\ articles # <<>>
    /\ fetch_exc = "none"
    /\ MetadataPrompts # {}

C10_FreshFailureDegrades ==
    (op # "none" /\ needs_fresh /\ pc # "blog_start"
        /\ (articles = <<>> \/ fetch_exc # "none")) =>
        /\ ~TruthyStr(fresh_context)
        /\ base_prompt # <<>> =>
              UsesEvergreenTemplate(base_prompt) /\ ~UsesFreshTemplate(base_prompt)
        /\ pc = "blog_raised" => MetadataPrompts # {}
        /\ pc \in {"blog_image", "blog_return", "blog_done"} => MetadataPrompts # {}
        /\ pc \in {"blog_prompt", "blog_metadata"} => ENABLED BlogNext

\* a finished operation whose fetch step raised
C10_Witness ==
    /\ needs_fresh
    /\ fetch_exc # "none"
    /\ pc = "blog_done"
    /\ UsesEvergreenTemplate(base_prompt)
    /\ result # NoValue

\* the generated document a finished operation returned: the dict itself, or
\* the dict read back from the blog field
ResultDocument ==
    IF op = "detailed" THEN JsonLoads(DictGet(result, BLOG, JStr(<<>>)).s).val ELSE result

\* C11: when the metadata call succeeded and the image step then raised, the
\* exception is caught: featured_image_url is set to null in the dict, the
\* operation goes on to its return, and the returned document carries
\* featured_image_url null.
C11_ImageFailureCaught ==
    (op # "none" /\ image_exc # "none") =>
        /\ json_result.val # NoValue
        /\ blog_exc = "none"
        /\ pc \in {"blog_return", "blog_done"}
        /\ pc = "blog_return" => ENABLED ReturnBlog
        /\ DictGet(ai_json, FEATURED_IMAGE_URL, NoValue) = JNull
        /\ pc = "blog_done" =>
              /\ result # NoValue
              /\ DictGet(ResultDocument, FEATURED_IMAGE_URL, NoValue) = JNull

\* a finished generate_detailed_blog whose image call failed
C11_Witness ==
    /\ op = "detailed"
    /\ pc = "blog_done"
    /\ image_exc = "Exception"
    /\ DictGet(ResultDocument, FEATURED_IMAGE_URL, NoValue) = JNull

\* the prompts sent to the image backend
ImagePrompts ==
    {calls[i].prompt : i \in {n \in 1..Len(calls) : calls[n].svc = "dalle"}}

\* the featured prompt the metadata gave
FeaturedPrompt == DictGet(ai_json, FEATURED_IMAGE_PROMPT, JStr(<<>>))

\* C12: when the text call inside enhance_image_prompt failed, nothing is
\* raised because of it; the basic prompt comes back unchanged, so the image
\* backend is called, and called with exactly the featured prompt.
C12_EnhanceFallsBackToOriginal ==
    (op # "none" /\ enhance_exc # "none") =>
        /\ blog_exc = "none"
        /\ pc \in {"blog_return", "blog_done"}
        /\ Sliceable(FeaturedPrompt) => ImagePrompts = {Format(FeaturedPrompt)}
        /\ ~Sliceable(FeaturedPrompt) => ImagePrompts = {}

\* a finished operation whose enhancement failed and whose image call got
\* the featured prompt and succeeded
C12_Witness ==
    /\ pc = "blog_done"
    /\ enhance_exc = "Exception"
    /\ image_exc = "none"
    /\ FeaturedPrompt.s # <<>>
    /\ ImagePrompts = {FeaturedPrompt.s}

-----------------------------------------------------------------------------
(* config.py and ollama_service.generate_text.                             *)

\* the environment variables config.py reads
EnvNames == {
    "GOOGLE_DEVELOPER_TOKEN", "GOOGLE_CLIENT_ID", "GOOGLE_CLIENT_SECRET",
    "GOOGLE_REFRESH_TOKEN", "GOOGLE_CUSTOMER_ID", "OPENAI_API_KEY",
    "OLLAMA_BASE_URL", "OLLAMA_MODEL", "OLLAMA_BASIC_AUTH_USER", "OLLAMA_BASIC_AUTH_PASS" }

DEFAULT_MODEL == <<"q", "w", "e", "n", "2", ".", "5", ":", "7", "b">>

\* os.getenv(name): None when the variable is absent
Getenv(env, name) == env[name]

\* os.getenv(name, default)
GetenvOr(env, name, default) == IF env[name].none THEN Some(default) ELSE env[name]

\* config.py lines 7-18: the module constants
Config(env) ==
    [GOOGLE_DEVELOPER_TOKEN |-> GetenvOr(env, "GOOGLE_DEVELOPER_TOKEN", <<>>),
     GOOGLE_CLIENT_ID |-> GetenvOr(env, "GOOGLE_CLIENT_ID", <<>>),
     GOOGLE_CLIENT_SECRET |-> GetenvOr(env, "GOOGLE_CLIENT_SECRET", <<>>),
     GOOGLE_REFRESH_TOKEN |-> GetenvOr(env, "GOOGLE_REFRESH_TOKEN", <<>>),
     GOOGLE_CUSTOMER_ID |-> GetenvOr(env, "GOOGLE_CUSTOMER_ID", <<>>),
     OPENAI_API_KEY |-> GetenvOr(env, "OPENAI_API_KEY", <<>>),
     OLLAMA_BASE_URL |-> Getenv(env, "OLLAMA_BASE_URL"),
     OLLAMA_MODEL |-> GetenvOr(env, "OLLAMA_MODEL", DEFAULT_MODEL),
     OLLAMA_USERNAME |-> Getenv(env, "OLLAMA_BASIC_AUTH_USER"),
     OLLAMA_PASSWORD |-> Getenv(env, "OLLAMA_BASIC_AUTH_PASS")]

\* the constant each variable is read into
ConstantOf(name) ==
    IF name = "OLLAMA_BASIC_AUTH_USER" THEN "OLLAMA_USERNAME"
    ELSE IF name = "OLLAMA_BASIC_AUTH_PASS" THEN "OLLAMA_PASSWORD"
    ELSE name

\* an optional string inside an f-string: None prints as None
FormatOpt(x) == IF x.none THEN <<"N", "o", "n", "e">> ELSE x.text

API_GENERATE == <<"/", "a", "p", "i", "/", "g", "e", "n", "e", "r", "a", "t", "e">>

\* requests refuses a URL without a scheme before anything is sent
ValidUrl(url) ==
    \/ StartsWith(url, <<"h", "t", "t", "p", ":", "/", "/">>)
    \/ StartsWith(url, <<"h", "t", "t", "p", "s", ":", "/", "/">>)

RESPONSE == <<"r", "e", "s", "p", "o", "n", "s", "e">>

NoAuth == [none |-> TRUE, username |-> NoneStr, password |-> NoneStr]

\* lines 67-88: the one requests.post generate_text makes
PostOf(cfg, prompt, system_prompt) ==
    [url |-> FormatOpt(cfg.OLLAMA_BASE_URL) \o API_GENERATE,
     model |-> cfg.OLLAMA_MODEL,
     prompt |-> FullPrompt(system_prompt, prompt),
     auth |-> IF TruthyStr(cfg.OLLAMA_PASSWORD)
              THEN [none |-> FALSE, username |-> cfg.OLLAMA_USERNAME,
                    password |-> cfg.OLLAMA_PASSWORD]
              ELSE NoAuth]

\* what ends the call besides a returned text: the three handlers turn a
\* timeout, any other requests exception (a refused URL, a connection
\* error, an error status, a body that is not JSON) into Exception; nothing
\* handles the AttributeError of an envelope that is not a dict or of a
\* response field that is not a str
TextOutcome(post, b) ==
    IF ~ValidUrl(post.url) THEN [exc |-> "Exception", val |-> <<>>]
    ELSE IF b.kind \in {"timeout", "connection", "http_error", "not_json"}
    THEN [exc |-> "Exception", val |-> <<>>]
    ELSE IF b.envelope.t # "obj" THEN [exc |-> "AttributeError", val |-> <<>>]
    ELSE LET response == DictGet(b.envelope, RESPONSE, JStr(<<>>)) IN
         IF response.t # "str" THEN [exc |-> "AttributeError", val |-> <<>>]
         ELSE [exc |-> "none", val |-> Strip(response.s)]

-----------------------------------------------------------------------------
(* SpecText: the configuration is read, then generate_text is called once. *)

\* what the environment may hold for each variable
EnvValues(name) ==
    IF name = "OLLAMA_BASE_URL" THEN {NoneStr, Some(<<>>), Some(<<"h", "t", "t", "p", ":", "/", "/", "h">>)}
    ELSE IF name = "OLLAMA_MODEL" THEN {NoneStr, Some(<<"m">>)}
    ELSE IF name = "OLLAMA_BASIC_AUTH_USER" THEN {NoneStr, Some(<<>>), Some(<<"u">>)}
    ELSE IF name = "OLLAMA_BASIC_AUTH_PASS" THEN {NoneStr, Some(<<>>), Some(<<"p", "w">>)}
    ELSE {NoneStr, Some(<<"k">>)}

\* every environment over those values
Environs ==
    {[name \in EnvNames |->
         IF name = "OLLAMA_BASE_URL" THEN url
         ELSE IF name = "OLLAMA_MODEL" THEN model
         ELSE IF name = "OLLAMA_BASIC_AUTH_USER" THEN user
         ELSE IF name = "OLLAMA_BASIC_AUTH_PASS" THEN pass
         ELSE IF name \in set THEN Some(<<"k">>) ELSE NoneStr] :
       url \in EnvValues("OLLAMA_BASE_URL"), model \in EnvValues("OLLAMA_MODEL"),
       user \in EnvValues("OLLAMA_BASIC_AUTH_USER"),
       pass \in EnvValues("OLLAMA_BASIC_AUTH_PASS"),
       set \in SUBSET {"GOOGLE_DEVELOPER_TOKEN", "GOOGLE_CLIENT_ID", "GOOGLE_CLIENT_SECRET",
                       "GOOGLE_REFRESH_TOKEN", "GOOGLE_CUSTOMER_ID", "OPENAI_API_KEY"}}

\* what the backend may do with the request: no answer in time, no
\* connection, an error status, a body that is not JSON, or a JSON body
Backends == {
    [kind |-> "timeout", envelope |-> NoValue],
    [kind |-> "connection", envelope |-> NoValue],
    [kind |-> "http_error", envelope |-> NoValue],
    [kind |-> "not_json", envelope |-> NoValue],
    [kind |-> "json", envelope |-> JObj(<<RESPONSE>>, <<JStr(<<" ", "h", "i", "\n">>)>>)],
    [kind |-> "json", envelope |-> JObj(<<RESPONSE, <<"e", "v", "a", "l", "_", "c", "o", "u", "n", "t">>>>, <<JStr(<<>>), JNum(<<"3">>)>>)],
    [kind |-> "json", envelope |-> JObj(<<>>, <<>>)],
    [kind |-> "json", envelope |-> JObj(<<<<"e", "r", "r", "o", "r">>>>, <<JStr(<<"b", "o", "o", "m">>)>>)],
    [kind |-> "json", envelope |-> JObj(<<RESPONSE>>, <<JNull>>)],
    [kind |-> "json", envelope |-> JArr(<<>>)] }

TextPrompt == <<"w", "r", "i", "t", "e">>
SystemPrompts == {<<>>, <<"s", "y", "s">>}

TextInit ==
    /\ pc = "config_load"
    /\ environ \in Environs
    /\ config = <<>>
    /\ backend = NoBackend
    /\ posts = <<>>
    /\ text_result = [exc |-> "none", val |-> <<>>]
    /\ JsonIdle
    /\ FreshIdle
    /\ FetchIdle
    /\ articles = <<>>
    /\ CtxIdle
    /\ BlogIdle
    /\ PairIdle

\* importing app.config
LoadConfig ==
    /\ pc = "config_load"
    /\ config' = Config(environ)
    /\ pc' = "text_call"
    /\ UNCHANGED <<environ, backend, posts, text_result>>
    /\ UNCHANGED <<jsonVars, freshVars, fetchVars, articles, ctxVars, blogVars, pairVars>>

\* generate_text(prompt, system_prompt): one post, then a text or an exception
GenerateText ==
    /\ pc = "text_call"
    /\ \E b \in Backends, system_prompt \in SystemPrompts :
          LET post == PostOf(config, TextPrompt, system_prompt) IN
          /\ posts' = Append(posts, post)
          /\ backend' = IF ValidUrl(post.url) THEN b
                        ELSE [kind |-> "refused", envelope |-> NoValue]
          /\ text_result' = TextOutcome(post, b)
          /\ pc' = IF text_result'.exc = "none" THEN "text_done" ELSE "text_raised"
    /\ UNCHANGED <<environ, config>>
    /\ UNCHANGED <<jsonVars, freshVars, fetchVars, articles, ctxVars, blogVars, pairVars>>

TextNext == LoadConfig \/ GenerateText

SpecText == TextInit /\ [][TextNext]_vars

Finished == pc \in {"text_done", "text_raised"}

\* the backend answered with a JSON object that has no response field
LacksResponse(b) ==
    /\ b.kind = "json"
    /\ b.envelope.t = "obj"
    /\ \A i \in 1..Len(b.envelope.keys) : b.envelope.keys[i] # RESPONSE

\* C13 as stated: when the backend's envelope lacks the response field,
\* generate_text raises as it does for a transport failure and returns no text.
C13_AsClaimed ==
    (Finished /\ LacksResponse(backend)) =>
        (pc = "text_raised" /\ text_result.exc = "Exception")

\* every call of generate_text makes one requests.post
OnePost == Finished => Len(posts) = 1

\* the failures C14 lists: a timeout, a transport error, a malformed response
ListedFailure(b) ==
    \/ b.kind \in {"timeout", "connection", "http_error", "refused", "not_json"}
    \/ LacksResponse(b)

\* C14 as stated: every call of generate_text sends exactly one request, and
\* after a timeout, a transport error or a malformed response the failure is
\* raised to the caller.
C14_AsClaimed ==
    /\ OnePost
    /\ (Finished /\ ListedFailure(backend)) => pc = "text_raised"

\* C18 as stated: every variable that is absent from the environment resolves
\* to a fallback or to the empty string, never to None.
C18_AsClaimed ==
    pc # "config_load" =>
        \A name \in EnvNames : environ[name].none => ~config[ConstantOf(name)].none

\* what follows the template when a context is appended
ContextSuffix(ctx) == <<"\n", "\n", "CONTEXT_LABEL">> \o Dumps(ctx)

\* C15 as stated: whenever the caller supplies a context object, the body
\* prompt of generate_detailed_blog is the selected template followed by the
\* context's JSON serialization.
C15_AsClaimed ==
    (op = "detailed" /\ context # NoValue /\ base_prompt # <<>>) =>
        base_prompt = SelectTemplate(topic.text, fresh_context) \o ContextSuffix(context)

\* C15: the body prompt of generate_detailed_blog is the selected template,
\* fresh-data or evergreen, followed by the context's JSON serialization when
\* the caller supplied a non-empty context object, and the selected template
\* alone when the context is absent or empty; that body prompt is what is
\* sent to the backend.
C15_NonEmptyContextAppended ==
    (op = "detailed" /\ base_prompt # <<>>) =>
        /\ Truthy(context) =>
              base_prompt = SelectTemplate(topic.text, fresh_context) \o ContextSuffix(context)
        /\ ~Truthy(context) => base_prompt = SelectTemplate(topic.text, fresh_context)
        /\ \A sent \in MetadataPrompts :
              sent = FullPrompt(BlogMetadataSystemPrompt, base_prompt)

\* a sent fresh-data prompt that ends with the caller's context
C15_Witness ==
    /\ op = "detailed"
    /\ Truthy(context)
    /\ UsesFreshTemplate(base_prompt)
    /\ MetadataPrompts # {}
    /\ \A sent \in MetadataPrompts : EndsWith(sent, Dumps(context))

-----------------------------------------------------------------------------
(* SpecPair: generate_blog_with_image runs to its end, then                *)
(* generate_detailed_blog runs on the same topic, without a context,       *)
(* against feeds and backends that answer as they did the first time.      *)

BlogFinished == pc \in {"blog_done", "blog_raised"}

\* the metadata call was answered with a text
MetadataAnswered == json_result.val # NoValue

\* the five fields of the generated document
DocumentFields(d) ==
    [title |-> DictGet(d, <<"t", "i", "t", "l", "e">>, NoValue),
     meta_description |-> DictGet(d, <<"m", "e", "t", "a", "_", "d", "e", "s", "c", "r",
                                       "i", "p", "t", "i", "o", "n">>, NoValue),
     featured_image_prompt |-> DictGet(d, FEATURED_IMAGE_PROMPT, NoValue),
     content |-> DictGet(d, <<"c", "o", "n", "t", "e", "n", "t">>, NoValue),
     featured_image_url |-> DictGet(d, FEATURED_IMAGE_URL, NoValue)]

\* the finished run: what the feeds and backends answered, and what came of it
ThisRun ==
    [none |-> FALSE, feeds |-> feeds, fetch_exc |-> fetch_exc,
     answered |-> MetadataAnswered, generated_text |-> generated_text,
     enhance_exc |-> enhance_exc, image_exc |-> image_exc,
     calls |-> calls, raised |-> pc = "blog_raised", blog_exc |-> blog_exc,
     document |-> IF pc = "blog_done" THEN DocumentFields(ResultDocument) ELSE NoValue]

\* the feeds and the backends answered this run as they answered the first
SameAnswers ==
    /\ feeds = first.feeds
    /\ fetch_exc = first.fetch_exc
    /\ MetadataAnswered = first.answered
    /\ generated_text = first.generated_text
    /\ enhance_exc = first.enhance_exc
    /\ image_exc = first.image_exc

PairInit == BlogInit /\ op = "with_image"

\* the first run is kept and generate_detailed_blog(topic) is called
CallDetailedBlog ==
    /\ BlogFinished
    /\ op = "with_image"
    /\ first.none
    /\ first' = ThisRun
    /\ pc' = "blog_start"
    /\ op' = "detailed"
    /\ context' = NoValue
    /\ needs_fresh' = FALSE
    /\ generated_text' = <<>>
    /\ json_result' = NoJsonResult
    /\ feeds' = <<>> /\ max_items' = 0 /\ fetch_exc' = "none"
    /\ articles' = <<>>
    /\ max_chars' = 0 /\ fresh_context' = NoneStr
    /\ base_prompt' = <<>>
    /\ ai_json' = NoValue
    /\ calls' = <<>>
    /\ blog_exc' = "none"
    /\ result' = NoValue
    /\ enhance_exc' = "none"
    /\ image_exc' = "none"
    /\ UNCHANGED <<topic, seed, textVars>>

PairNext == BlogNext \/ CallDetailedBlog

SpecPair == PairInit /\ [][PairNext]_vars

\* the second run ended as the first did
SameOutcome ==
    /\ calls = first.calls
    /\ (pc = "blog_raised") = first.raised
    /\ blog_exc = first.blog_exc
    /\ pc = "blog_done" => DocumentFields(ResultDocument) = first.document

-----------------------------------------------------------------------------
(* The value generate_detailed_blog returns                                *)

TITLE == <<"t", "i", "t", "l", "e">>
META_DESCRIPTION == <<"m", "e", "t", "a", "_", "d", "e", "s", "c", "r", "i", "p", "t", "i", "o", "n">>
CONTENT == <<"c", "o", "n", "t", "e", "n", "t">>

\* the metadata backend's answer was an object with the three text keys
WellFormedMetadata ==
    /\ json_result.val.t = "obj"
    /\ \A k \in {TITLE, META_DESCRIPTION, CONTENT} :
          DictGet(json_result.val, k, NoValue) # NoValue

\* C17: a generate_detailed_blog that returned gives an object with exactly
\* keyword and blog; keyword is the topic as passed in; blog is the
\* serialisation of the generated dict, which parses back to that dict and
\* carries keyword equal to the topic; and title, meta_description and content
\* of a well-formed metadata object are in it with the values the backend
\* gave.
C17_KeywordAndSerializedDocument ==
    (pc = "blog_done" /\ op = "detailed") =>
        /\ result.t = "obj"
        /\ result.keys = <<KEYWORD, BLOG>>
        /\ DictGet(result, KEYWORD, NoValue) = JStr(topic.text)
        /\ DictGet(result, BLOG, NoValue) = JStr(Dumps(ai_json))
        /\ ResultDocument = ai_json
        /\ DictGet(ResultDocument, KEYWORD, NoValue) = JStr(topic.text)
        /\ WellFormedMetadata =>
              \A k \in {TITLE, META_DESCRIPTION, CONTENT} :
                 DictGet(ResultDocument, k, NoValue) = DictGet(json_result.val, k, NoValue)

\* a run that returned a document made from a well-formed metadata object,
\* with an image
C17_Witness ==
    /\ pc = "blog_done"
    /\ op = "detailed"
    /\ WellFormedMetadata
    /\ DictGet(ResultDocument, FEATURED_IMAGE_URL, NoValue) = JStr(<<"IMAGE_URL">>)
    /\ DictGet(ResultDocument, KEYWORD, NoValue) = JStr(topic.text)

-----------------------------------------------------------------------------
(* The shape of the text build_fresh_context returns                       *)

\* the numbered entries of the first k articles, in order
RECURSIVE Blocks(_, _)
Blocks(arts, k) ==
    IF k = 0 THEN <<>> ELSE Blocks(arts, k - 1) \o ArticleText(k, arts[k])

\* how many articles are kept: the longest prefix that fits
Kept(arts, mc) == Cardinality(Included(arts, mc))

\* C19: build_fresh_context returns "" for an empty list; otherwise the
\* header, the numbered entries (from 1) of the longest prefix of the
\* articles for which header and entries stay within max_chars, the
\* truncation marker exactly when an article was dropped, and the footer at
\* the end; nothing of an article after the first dropped one is in it.
C19_HeaderPrefixMarkerFooter ==
    pc = "ctx_done" =>
        LET k == Kept(articles, max_chars) IN
        /\ Included(articles, max_chars) = 1..k
        /\ fresh_context.text =
              IF articles = <<>> THEN <<>>
              ELSE HEADER \o Blocks(articles, k)
                     \o (IF k < Len(articles) THEN TRUNCATION_MARKER ELSE <<>>)
                     \o FOOTER

\* the first of three articles was kept, the second dropped, and the third
\* would have fitted after the first
C19_Witness ==
    /\ pc = "ctx_done"
    /\ Len(articles) = 3
    /\ Kept(articles, max_chars) = 1
    /\ LengthBefore(articles, 2) + Len(ArticleText(3, articles[3])) <= max_chars

-----------------------------------------------------------------------------
(* The order of the backend calls.  The calls are synchronous: a call in   *)
(* the log has returned or raised before the next one is made.             *)

CallsBy(by) == {n \in 1..Len(calls) : calls[n].by = by}

ImageCalls == {n \in 1..Len(calls) : calls[n].svc = "dalle"}

\* C20: in generate_detailed_blog and generate_blog_with_image every call to
\* the image backend comes after exactly one enhancement call, made for the
\* featured prompt of the metadata, and that one after the one metadata call;
\* there is no image call when the metadata call failed or was not made.
C20_EnhanceBeforeImage ==
    op # "none" =>
        /\ \A i \in ImageCalls :
              /\ Cardinality(CallsBy("enhance_image_prompt")) = 1
              /\ Cardinality(CallsBy("generate_blog_metadata")) = 1
              /\ \A j \in CallsBy("enhance_image_prompt") :
                    /\ j < i
                    /\ calls[j].prompt = FullPrompt(<<>>, EnhancementPrompt(FeaturedPrompt))
                    /\ \A m \in CallsBy("generate_blog_metadata") : m < j
        /\ Cardinality(ImageCalls) <= 1
        /\ ~MetadataAnswered => ImageCalls = {}
        /\ CallsBy("generate_blog_metadata") = {} =>
              CallsBy("enhance_image_prompt") = {} /\ ImageCalls = {}

\* a finished run that fetched the feeds, then called the metadata backend,
\* the enhancement and the image backend, in that order
C20_Witness ==
    /\ pc = "blog_done"
    /\ Len(calls) = 4
    /\ calls[1].svc = "rss"
    /\ calls[2].by = "generate_blog_metadata"
    /\ calls[3].by = "enhance_image_prompt"
    /\ calls[4].svc = "dalle"
    /\ enhance_exc = "none"

-----------------------------------------------------------------------------
(* The image step and the featured_image_url key                           *)

\* the enhancement or the image backend has been called
ImageStepCalled == CallsBy("enhance_image_prompt") # {} \/ ImageCalls # {}

\* `if featured_prompt:` on the metadata's featured_image_prompt
PromptTruthy == ai_json.t = "obj" /\ Truthy(FeaturedPrompt)

\* the returned document has a featured_image_url key
HasImageUrlKey == DictGet(ResultDocument, FEATURED_IMAGE_URL, NoValue) # NoValue

\* the enhancement and the image backend are called only on a truthy
\* featured prompt, and the image step sets the key whenever it ran
ImageStepOnlyOnTruthyPrompt ==
    op # "none" =>
        /\ ImageStepCalled => PromptTruthy
        /\ (pc = "blog_done" /\ PromptTruthy) => ImageStepCalled /\ HasImageUrlKey

\* C21 as stated: the enhancement and the image backend are called only when
\* the metadata has a non-empty featured_image_prompt, and the returned
\* document has a featured_image_url key exactly when it has one.
C21_AsClaimed ==
    op # "none" =>
        /\ ImageStepCalled => PromptTruthy
        /\ pc = "blog_done" => (HasImageUrlKey <=> PromptTruthy)

====
